---- MODULE Spec2Model ----
(***************************************************************************)
(* Cross-commit position adjustment (resolvers/position.go).               *)
(*                                                                         *)
(* A hunk is the record go-diff's parser hands over: the four header       *)
(* numbers and Body, the bytes of the hunk's delta.  Body is kept as a     *)
(* sequence of bytes in which the text of every delta line is cut down to  *)
(* its first byte ("+", "-" or " "), lines being ended by "\n"; the code   *)
(* reads nothing else of a line.                                           *)
(*                                                                         *)
(* Line numbers are int32 (hunk header) and int (position) in the code;    *)
(* the lines generated here stay far below 2^31, so the sums are exact.    *)
(*                                                                         *)
(* Three specifications: SpecTranslate and SpecRange apply the pure        *)
(* functions adjustPosition and adjustRange to generated diffs; Spec runs  *)
(* calls of AdjustPath / AdjustPosition / AdjustRange on one adjuster from *)
(* two goroutines, a step per answer of a collaborator.                    *)
(***************************************************************************)
EXTENDS Integers, Sequences, FiniteSets, TLC

\* ------------------------------------------------------------------ bounds
\* Largest start line (OrigStartLine, NewStartLine) of a generated hunk.
MaxLine == 2
\* Largest character offset of a queried position.
MaxChar == 1

\* Largest declared line count (OrigLines, NewLines) and largest number of
\* delta lines of a hunk that stands alone in its diff.
MaxCount == 2
MaxScript == 6
MaxIterations == 3
MaxIDs == 1
MaxNavigations == 3
MaxInputs == 4

Counts == 0 .. MaxCount
BodyLens == 0 .. MaxCount
\* The same for the hunks of a diff of two hunks.
PairCounts == 0 .. 1
PairBodyLens == 0 .. 1

\* ------------------------------------------------------------- data model
NL == "\n"
Tags == {"+", "-", " "}

Position(l, c) == [Line |-> l, Character |-> c]
ZeroPosition == Position(0, 0)
Range(s, e) == [Start |-> s, End |-> e]
ZeroRange == Range(ZeroPosition, ZeroPosition)

Hunk(os, ol, ns, nl, body) ==
    [OrigStartLine |-> os, OrigLines |-> ol,
     NewStartLine |-> ns, NewLines |-> nl, Body |-> body]

\* The outcomes of a call: it returns (value, ok), or it panics.
Return(v, ok) == [state |-> "returned", value |-> v, ok |-> ok]
Panic(msg) == [state |-> "panicked", msg |-> msg]
NotRun == [state |-> "not run"]

\* --------------------------------------------------------- strings helpers
\* Index of the first sep in s at or after i, or 0.
RECURSIVE IndexFrom(_, _, _)
IndexFrom(s, sep, i) ==
    IF i > Len(s) THEN 0
    ELSE IF s[i] = sep THEN i
    ELSE IndexFrom(s, sep, i + 1)

\* strings.Split(s, sep) for a one-byte sep: the pieces between the
\* separators, so n separators give n + 1 pieces (the last one empty when s
\* ends with sep, and the empty string gives one empty piece).
RECURSIVE Split(_, _)
Split(s, sep) ==
    LET i == IndexFrom(s, sep, 1)
    IN  IF i = 0 THEN <<s>>
        ELSE <<SubSeq(s, 1, i - 1)>> \o Split(SubSeq(s, i + 1, Len(s)), sep)

\* strings.HasPrefix(s, p) for a one-byte p.
HasPrefix(s, p) == Len(s) >= 1 /\ s[1] = p

\* ------------------------------------------------------- position.go, pure
\* findHunk: the index (1-based; 0 is nil) of the last hunk that does not
\* begin after the given line.  The loop counts the leading hunks that begin
\* at or before line.
\* Faulty variant of findHunk's loop: a hunk that begins on the line itself
\* is taken to begin after it.
RECURSIVE findHunkLoopStrict(_, _, _)
findHunkLoopStrict(hs, line, i) ==
    IF i < Len(hs) /\ hs[i + 1].OrigStartLine < line
    THEN findHunkLoopStrict(hs, line, i + 1)
    ELSE i

RECURSIVE findHunkLoop(_, _, _)
findHunkLoop(hs, line, i) ==
    IF i < Len(hs) /\ hs[i + 1].OrigStartLine <= line
    THEN findHunkLoop(hs, line, i + 1)
    ELSE i

findHunk(hs, line) == findHunkLoop(hs, line, 0)

\* Faulty variant of adjustAfterHunk: shifts by the difference of the line
\* counts and forgets where the two sides of the hunk start.
adjustAfterHunkCountsOnly(hunk, line, p) ==
    LET adjustedLine == line + (hunk.NewLines - hunk.OrigLines)
    IN  Return(Position(adjustedLine - 1, p.Character), TRUE)

\* Faulty variant of adjustAfterHunk: shifts by the difference of the two
\* starts and forgets the lines the hunk itself adds or removes.
adjustAfterHunkStartsOnly(hunk, line, p) ==
    LET adjustedLine == line + (hunk.NewStartLine - hunk.OrigStartLine)
    IN  Return(Position(adjustedLine - 1, p.Character), TRUE)

\* The hunk ends before line: shift by the difference of the two ends.
adjustAfterHunk(hunk, line, p) ==
    LET endOfSourceHunk == hunk.OrigStartLine + hunk.OrigLines
        endOfTargetHunk == hunk.NewStartLine + hunk.NewLines
        adjustedLine == line + (endOfTargetHunk - endOfSourceHunk)
    IN  Return(Position(adjustedLine - 1, p.Character), TRUE)

\* Faulty variant of hitTargetLine: hands the input position back on an
\* edited line instead of the zero position.
hitTargetLineKeepsInput(isAdded, isRemoved, targetOffset, p) ==
    IF isAdded \/ isRemoved
    THEN Return(p, FALSE)
    ELSE Return(Position(targetOffset - 1, p.Character), TRUE)

\* Faulty variant of hitTargetLine: only an added line is refused, a removed
\* line is translated like a context line.
hitTargetLineAddedOnly(isAdded, isRemoved, targetOffset, p) ==
    IF isAdded
    THEN Return(ZeroPosition, FALSE)
    ELSE Return(Position(targetOffset - 1, p.Character), TRUE)

\* The walk hit the target line at a delta line with the given tags.
hitTargetLine(isAdded, isRemoved, targetOffset, p) ==
    IF isAdded \/ isRemoved
    THEN Return(ZeroPosition, FALSE)
    ELSE Return(Position(targetOffset - 1, p.Character), TRUE)

\* Faulty variant of bodyExhausted: reports an untranslatable position.
bodyExhaustedUntranslatable == Return(ZeroPosition, FALSE)

\* The body was iterated to its end without reaching the target line.
bodyExhausted == Panic("Malformed hunk body")

\* Faulty variant of walkBody: bumps the target offset on removed lines too.
RECURSIVE walkBodyCountsRemoved(_, _, _, _, _, _)
walkBodyCountsRemoved(lines, k, sourceOffset, targetOffset, line, p) ==
    IF k > Len(lines) THEN bodyExhausted
    ELSE LET deltaLine == lines[k]
             isAdded == HasPrefix(deltaLine, "+")
             isRemoved == HasPrefix(deltaLine, "-")
             so == IF ~isAdded THEN sourceOffset + 1 ELSE sourceOffset
         IN  IF so - 1 = line
             THEN hitTargetLine(isAdded, isRemoved, targetOffset, p)
             ELSE walkBodyCountsRemoved(lines, k + 1, so, targetOffset + 1,
                                        line, p)

\* The loop over strings.Split(hunk.Body, "\n"), from delta line k on.
RECURSIVE walkBody(_, _, _, _, _, _)
walkBody(lines, k, sourceOffset, targetOffset, line, p) ==
    IF k > Len(lines) THEN bodyExhausted
    ELSE LET deltaLine == lines[k]
             isAdded == HasPrefix(deltaLine, "+")
             isRemoved == HasPrefix(deltaLine, "-")
             so == IF ~isAdded THEN sourceOffset + 1 ELSE sourceOffset
         IN  IF so - 1 = line
             THEN hitTargetLine(isAdded, isRemoved, targetOffset, p)
             ELSE walkBody(lines, k + 1, so,
                           IF ~isRemoved THEN targetOffset + 1 ELSE targetOffset,
                           line, p)

\* Faulty variant of noChangesBefore: returns the one-indexed line.
noChangesBeforeOneIndexed(p) == Return(Position(p.Line + 1, p.Character), TRUE)

\* No hunk begins at or before the line: no changes before this line.
noChangesBefore(p) == Return(p, TRUE)

adjustPosition(hs, p) ==
    LET line == p.Line + 1
        i == findHunk(hs, line)
    IN  IF i = 0 THEN noChangesBefore(p)
        ELSE LET hunk == hs[i]
             IN  IF line >= hunk.OrigStartLine + hunk.OrigLines
                 THEN adjustAfterHunk(hunk, line, p)
                 ELSE walkBody(Split(hunk.Body, NL), 1,
                               hunk.OrigStartLine, hunk.NewStartLine, line, p)

adjustRange(hs, r) ==
    LET start == adjustPosition(hs, r.Start)
    IN  IF start.state = "panicked" THEN start
        ELSE IF ~start.ok THEN Return(ZeroRange, FALSE)
        ELSE LET end == adjustPosition(hs, r.End)
             IN  IF end.state = "panicked" THEN end
                 ELSE IF ~end.ok THEN Return(ZeroRange, FALSE)
                 ELSE Return(Range(start.value, end.value), TRUE)

\* ------------------------------------------------------------- input sets
\* The bytes the parser stores for the given delta lines: every line is
\* followed by "\n", except that the last newline is dropped again when the
\* diff says "\ No newline at end of file" (endsNL = FALSE).
RECURSIVE JoinLines(_)
JoinLines(tags) ==
    IF tags = <<>> THEN <<>>
    ELSE <<Head(tags), NL>> \o JoinLines(Tail(tags))

MkBody(tags, endsNL) ==
    LET b == JoinLines(tags)
    IN  IF endsNL \/ b = <<>> THEN b ELSE SubSeq(b, 1, Len(b) - 1)

TagSeqs(lens) == UNION {[1 .. n -> Tags] : n \in lens}
Bodies(lens) == {MkBody(t, e) : t \in TagSeqs(lens), e \in BOOLEAN}

\* Hunks that start at original line os.  The declared counts are free of the
\* body, so the set holds hunks whose body disagrees with its header.
HunksAt(os, counts, lens) ==
    {Hunk(os, ol, ns, nl, b) :
        ol \in counts, ns \in 1 .. MaxLine, nl \in counts, b \in Bodies(lens)}

\* Diffs of one file: hunks in strictly increasing OrigStartLine order.
HunkLists ==
    {<<>>}
    \cup UNION {{<<h>> : h \in HunksAt(os, Counts, BodyLens)} : os \in 1 .. MaxLine}
    \cup UNION {{<<h1, h2>> : h1 \in HunksAt(os[1], PairCounts, PairBodyLens),
                              h2 \in HunksAt(os[2], PairCounts, PairBodyLens)} :
                os \in {o \in (1 .. MaxLine) \X (1 .. MaxLine) : o[1] < o[2]}}

SetMax(S) == CHOOSE x \in S : \A y \in S : y <= x

\* Queried lines reach one line past the end of the longest original span.
PosLines == 0 .. MaxLine + SetMax(Counts)
Chars == 0 .. MaxChar
Positions == {Position(l, c) : l \in PosLines, c \in Chars}
\* Ranges in document order (start <= end), as callers are to pass them.
InOrder(s, e) ==
    s.Line < e.Line \/ (s.Line = e.Line /\ s.Character <= e.Character)

Ranges ==
    {Range(se[1], se[2]) :
        se \in {x \in Positions \X Positions : InOrder(x[1], x[2])}}

\* Diffs of one file as `git diff` prints them.  An edit script lists the
\* lines of both files in order, each kept (" "), removed ("-") or added
\* ("+"), removals before additions within one change, as git orders them.
Scripts ==
    {s \in UNION {[1 .. n -> Tags] : n \in 0 .. MaxScript} :
        \A k \in 1 .. Len(s) - 1 : ~(s[k] = "+" /\ s[k + 1] = "-")}

\* Lines of context around a change (git's -U / diff.context).
Contexts == {0, 1}

\* Script line k is printed: it is a change or within u lines of one.
Printed(s, u, k) ==
    \E j \in 1 .. Len(s) : s[j] # " " /\ j - k <= u /\ k - j <= u

OrigBefore(s, k) == Cardinality({j \in 1 .. k - 1 : s[j] # "+"})
NewBefore(s, k) == Cardinality({j \in 1 .. k - 1 : s[j] # "-"})

\* The last line of the run of printed lines that begins at line a.
RECURSIVE RunEnd(_, _, _)
RunEnd(s, u, a) ==
    IF a < Len(s) /\ Printed(s, u, a + 1) THEN RunEnd(s, u, a + 1) ELSE a

\* The hunk for script lines a .. b.  A side with no lines is given the
\* number of the line before the hunk ("@@ -2,0 +3,2 @@").
GitHunk(s, a, b) ==
    LET ol == OrigBefore(s, b + 1) - OrigBefore(s, a)
        nl == NewBefore(s, b + 1) - NewBefore(s, a)
    IN  Hunk(IF ol = 0 THEN OrigBefore(s, a) ELSE OrigBefore(s, a) + 1, ol,
             IF nl = 0 THEN NewBefore(s, a) ELSE NewBefore(s, a) + 1, nl,
             MkBody(SubSeq(s, a, b), TRUE))

RECURSIVE GitHunksFrom(_, _, _)
GitHunksFrom(s, u, k) ==
    IF k > Len(s) THEN <<>>
    ELSE IF ~Printed(s, u, k) THEN GitHunksFrom(s, u, k + 1)
    ELSE <<GitHunk(s, k, RunEnd(s, u, k))>>
             \o GitHunksFrom(s, u, RunEnd(s, u, k) + 1)

GitDiffs == {GitHunksFrom(s, u, 1) : s \in Scripts, u \in Contexts}

\* Queried lines reach one line past the end of the longer file.
DiffLines == 0 .. MaxScript
DiffChars == {0, 1}
DiffPositions == {Position(l, c) : l \in DiffLines, c \in DiffChars}
DiffRanges ==
    {Range(se[1], se[2]) :
        se \in {x \in DiffPositions \X DiffPositions : InOrder(x[1], x[2])}}

\* The diff in the other direction: every hunk with its two sides swapped
\* and the added and removed tags of its delta lines swapped.
SwapTag(c) == IF c = "+" THEN "-" ELSE IF c = "-" THEN "+" ELSE c
InverseBody(b) ==
    [i \in 1 .. Len(b) |->
        IF i = 1 \/ b[i - 1] = NL THEN SwapTag(b[i]) ELSE b[i]]
InverseHunk(h) ==
    Hunk(h.NewStartLine, h.NewLines, h.OrigStartLine, h.OrigLines,
         InverseBody(h.Body))
InverseDiff(hs) == [i \in 1 .. Len(hs) |-> InverseHunk(hs[i])]

\* ------------------------------------------------------------------ state
VARIABLES
    hunks,      \* the hunks handed to adjustPosition / adjustRange
    req,        \* the call: [op, arg]
    out,        \* its outcome, NotRun before the call
    back,       \* the outcome of translating out back through the inverse diff
    adjuster,   \* the positionAdjuster: [repo, commit]
    pc,         \* per goroutine: where its call into the adjuster stands
    args,       \* per goroutine: the arguments of its call
    locals,     \* per goroutine: readHunks' sourceCommit, targetCommit
    calls,      \* per goroutine: the collaborator calls made for its call
    result,     \* per goroutine: what its call returned
    resetter,   \* the IndexResetter, its metrics and where Run stands
    container,  \* the RepoContainer: props, state, subscriptions, fetches
    toggler     \* the ToggleLineWrap on the page, localStorage and its callers

translatorVars == <<hunks, req, out, back>>
adjusterVars == <<adjuster, pc, args, locals, calls, result>>
serviceVars == <<resetter, container, toggler>>
vars == <<translatorVars, adjusterVars, serviceVars>>

\* ------------------------------------------- positionAdjuster, its callers
Goroutines == {"g1", "g2"}
Commits == {"c1", "c2"}
Paths == {"a.go", "b.go"}
Repo == "repo"
Nil == "nil"

\* What the collaborators can fail with.
ErrRepo == "CachedGitRepo failed"
ErrExec == "ExecReader failed"
ErrRead == "ReadAll failed"
ErrParse == "FileDiffReader.Read failed"

\* Hunks the diff parser can hand back for a changed path: a context line
\* followed by an added line; a removed line followed by a context line; a
\* hunk that declares two original lines and holds one.
ParsedDiffs ==
    {<<Hunk(1, 1, 1, 2, MkBody(<<" ", "+">>, TRUE))>>,
     <<Hunk(1, 2, 1, 1, MkBody(<<"-", " ">>, TRUE))>>,
     <<Hunk(1, 2, 1, 0, MkBody(<<"-">>, FALSE))>>}

ReqPositions == {Position(0, 1), Position(1, 0)}
ReqRanges == {Range(Position(0, 1), Position(1, 0))}

NoArgs == [op |-> "none"]
NoLocals == [sourceCommit |-> "", targetCommit |-> ""]
NoResult == [state |-> "not returned"]

\* NewPositionAdjuster(repo, commit).
NewPositionAdjuster(repo, commit) == [repo |-> repo, commit |-> commit]

\* The (path, value, ok, err) a call returns.
Returned(path, value, ok, err) ==
    [state |-> "returned", path |-> path, value |-> value, ok |-> ok, err |-> err]

\* Faulty variant of AdjustPath: a reverse request is answered as not found.
AdjustPathRefusesReverse(commit, path, reverse) ==
    [state |-> "returned", path |-> IF reverse THEN "" ELSE path,
     ok |-> ~reverse, err |-> Nil]

\* AdjustPath's (path, ok, err).
AdjustPath(commit, path, reverse) ==
    [state |-> "returned", path |-> path, ok |-> TRUE, err |-> Nil]

ZeroValue(op) == IF op = "AdjustPosition" THEN ZeroPosition ELSE ZeroRange

\* Faulty variant of returnError: hands the inputs back beside the error.
returnErrorKeepsInput(a, err) == Returned(a.path, a.value, FALSE, err)

\* if err != nil { return "", bundles.Position{}, false, err }
returnError(a, err) == Returned("", ZeroValue(a.op), FALSE, err)

\* The rest of AdjustPosition / AdjustRange once readHunks gave hunks: a panic
\* of the translation unwinds the call.
translate(a, hs) ==
    LET r == IF a.op = "AdjustPosition"
             THEN adjustPosition(hs, a.value)
             ELSE adjustRange(hs, a.value)
    IN  IF r.state = "panicked" THEN r
        ELSE Returned(a.path, r.value, r.ok, Nil)

\* Faulty variant of sameCommit: the short cut is never taken.
sameCommitNever(sourceCommit, targetCommit) == FALSE

\* readHunks: if sourceCommit == targetCommit { return nil, nil }
sameCommit(sourceCommit, targetCommit) == sourceCommit = targetCommit

\* Faulty variant of swapCommits: reverse is ignored.
swapCommitsIgnoresReverse(sourceCommit, targetCommit, reverse) ==
    [sourceCommit |-> sourceCommit, targetCommit |-> targetCommit]

\* readHunks: if reverse { sourceCommit, targetCommit = targetCommit, sourceCommit }
swapCommits(sourceCommit, targetCommit, reverse) ==
    IF reverse
    THEN [sourceCommit |-> targetCommit, targetCommit |-> sourceCommit]
    ELSE [sourceCommit |-> sourceCommit, targetCommit |-> targetCommit]

\* The arguments of git.ExecReader.
diffArgs(l, path) == <<"diff", l.sourceCommit, l.targetCommit, "--", path>>

CallRecord(fn, a, err) == [fn |-> fn, args |-> a, err |-> err]

\* The parser's call, with the hunks it handed back.
ReadRecord(err, hs) ==
    [fn |-> "FileDiffReader.Read", args |-> <<>>, err |-> err, hunks |-> hs]

\* ------------------------------------------------- resetter.go, its data
\* What Store.ResetStalledIndexes can fail with.
ErrStore == "ResetStalledIndexes failed"
ResetIntervals == {"1s", "1m"}

\* The id lists the store can hand back.
IDLists == {[i \in 1 .. n |-> i] : n \in 0 .. MaxIDs}
NoResponse == [state |-> "none"]
StoreResponse(resetIDs, erroredIDs, err) ==
    [state |-> "returned", resetIDs |-> resetIDs, erroredIDs |-> erroredIDs,
     err |-> err]
StoreResponses ==
    {StoreResponse(r, e, err) :
        r \in IDLists, e \in IDLists, err \in {Nil, ErrStore}}

\* An IndexResetter whose Run has not started: its counters at zero.  The
\* fields after Metrics are where Run stands: its place in the loop, the
\* iterations it finished, the calls of the store and of time.Sleep it made,
\* the duration it last slept for and the store's last answer.
NewIndexResetter(interval) ==
    [ResetInterval |-> interval,
     Metrics |-> [Errors |-> 0, IndexResets |-> 0, IndexResetFailures |-> 0],
     pc |-> "for", iterations |-> 0, storeCalls |-> 0, sleeps |-> 0,
     sleptFor |-> "", last |-> NoResponse]

\* Faulty variant of recordMetrics: after an error the loop goes on to the
\* next iteration without counting the ids.
recordMetricsSkipsOnError(m, resp) ==
    IF resp.err # Nil
    THEN [m EXCEPT !.Errors = @ + 1]
    ELSE [m EXCEPT !.IndexResets = @ + Len(resp.resetIDs),
                   !.IndexResetFailures = @ + Len(resp.erroredIDs)]

\* The counters after one answer of the store.
recordMetrics(m, resp) ==
    [Errors |-> IF resp.err # Nil THEN m.Errors + 1 ELSE m.Errors,
     IndexResets |-> m.IndexResets + Len(resp.resetIDs),
     IndexResetFailures |-> m.IndexResetFailures + Len(resp.erroredIDs)]

\* ------------------------------------------- RepoContainer, its data
\* A URL path is a sequence of tokens: names, "@" and "/-/".
Routes ==
    {<<"a">>, <<"a", "@", "v1">>, <<"a", "/-/", "tree", "/-/", "x">>,
     <<"b">>, <<"b", "@", "v1", "/-/", "blob">>}

\* The first two pieces, as String.prototype.split(sep, 2) gives them.
Take2(ps) == IF Len(ps) > 2 THEN SubSeq(ps, 1, 2) ELSE ps

\* A destructured array element: <<>> stands for undefined.
ElementAt(ps, i) == IF Len(ps) >= i THEN <<ps[i]>> ELSE <<>>

\* parseRepoRev(repoRev): the parts before and after "@".
parseRepoRev(repoRev) ==
    LET ps == Take2(Split(repoRev, "@"))
    IN  [repoPath |-> ps[1], rev |-> ElementAt(ps, 2)]

parseURLPath(repoRevAndRest) ==
    LET ps == Take2(Split(repoRevAndRest, "/-/"))
        rr == parseRepoRev(ps[1])
    IN  [repoPath |-> rr.repoPath, rev |-> rr.rev, rest |-> ElementAt(ps, 2)]

\* The revisions of the routes are shorter than 40 characters, so
\* abbreviateOID hands them back, and the names hold nothing to escape.
searchQueryForRepoRev(repoPath, rev) ==
    <<"repo:^", repoPath, "$">>
        \o (IF rev # <<>> THEN <<"@", rev[1]>> ELSE <<>>) \o <<" ">>

\* match.params: an object (told apart by its identity) with the path.
Params(id, route) == [id |-> id, repoRevAndRest |-> route]

Undefined == [undefined |-> TRUE]

\* What fetchRepository can deliver for a repository path.
Repositories(repoPath) ==
    {[uri |-> repoPath, enabled |-> e] : e \in BOOLEAN}
FetchErrors ==
    {[code |-> "EREPONOTFOUND", message |-> "not found"],
     [code |-> "EREPOSEEOTHER", message |-> "see other",
      redirectURL |-> "https://other"],
     [code |-> "", message |-> "network"]}

\* What onDidUpdateRepository can be called with.
RepositoryUpdates == {[enabled |-> e] : e \in BOOLEAN}

\* { ...a, ...b } where a may be undefined.
Spread(a, b) ==
    LET own == IF a = Undefined THEN <<>> ELSE a
    IN  [f \in DOMAIN own \cup DOMAIN b |->
            IF f \in DOMAIN b THEN b[f] ELSE own[f]]

\* The component after its constructor.  The fields after state are what
\* the subscriptions keep: the repoPath distinctUntilChanged saw last, the
\* fetchRepository calls that have not answered (subscribed = the one
\* switchMap still listens to), the number of fetches started, the query
\* last sent to queryUpdates, the URL last redirected to and the number of
\* answers that came after their subscription had ended.
NewRepoContainer(params) ==
    [status |-> "constructed",
     props |-> [params |-> params],
     state |-> [repoPath |-> parseURLPath(params.repoRevAndRest).repoPath,
                rev |-> parseURLPath(params.repoRevAndRest).rev,
                rest |-> parseURLPath(params.repoRevAndRest).rest,
                repoOrError |-> Undefined],
     lastRepoPath |-> <<>>,
     fetches |-> {},
     started |-> 0,
     query |-> <<>>,
     redirectedTo |-> "",
     dropped |-> 0]

\* ------------------------------------------- ToggleLineWrap, its data
STORAGE_KEY == "wrap-code"

\* localStorage: the keys that are set, each with its string.
EmptyStorage == [k \in {} |-> ""]

\* localStorage.getItem(key): <<>> stands for null.
getItem(storage, key) ==
    IF key \in DOMAIN storage THEN <<storage[key]>> ELSE <<>>

\* localStorage.setItem(key, s).
setItem(storage, key, s) ==
    [k \in DOMAIN storage \cup {key} |-> IF k = key THEN s ELSE storage[k]]

\* String(value) of a boolean.
String(value) == IF value THEN "true" ELSE "false"

getValue(storage) == getItem(storage, STORAGE_KEY) = <<"true">>

setValue(storage, value) == setItem(storage, STORAGE_KEY, String(value))

\* What localStorage can hold when the page is opened: nothing, what
\* setValue wrote, or what something else wrote under the key.
Storages ==
    {EmptyStorage}
    \cup {setItem(EmptyStorage, STORAGE_KEY, s) : s \in {"true", "false", "1"}}

\* The DOM events that reach the component.
NoInput == [type |-> "none"]
ClickInput == [type |-> "click"]
KeydownInput(altKey, key) == [type |-> "keydown", altKey |-> altKey, key |-> key]
Keys == {"z", "a"}

\* The page with a ToggleLineWrap just constructed.  Beside the component
\* (status, state) it holds localStorage, the values onDidUpdate was called
\* with, the names handed to eventLogger.log, the calls of
\* Tooltip.forceUpdate, and the number of DOM events delivered and the last
\* of them.
NewToggleLineWrap(storage, events, inputs) ==
    [status |-> "constructed",
     state |-> [value |-> getValue(storage)],
     storage |-> storage,
     onDidUpdate |-> <<>>,
     events |-> events,
     forceUpdates |-> Len(events),
     inputs |-> inputs,
     lastInput |-> NoInput]

ServicesIdle ==
    /\ toggler = NewToggleLineWrap(EmptyStorage, <<>>, 0)
    /\ resetter = NewIndexResetter("1s")
    /\ container = NewRepoContainer(Params(0, <<"a">>))

AdjusterIdle ==
    /\ pc = [g \in Goroutines |-> "idle"]
    /\ args = [g \in Goroutines |-> NoArgs]
    /\ locals = [g \in Goroutines |-> NoLocals]
    /\ calls = [g \in Goroutines |-> <<>>]
    /\ result = [g \in Goroutines |-> NoResult]

TranslatorIdle ==
    /\ hunks = <<>>
    /\ req = [op |-> "none"]
    /\ out = NotRun
    /\ back = NotRun

Init ==
    /\ adjuster \in {NewPositionAdjuster(Repo, c) : c \in Commits}
    /\ AdjusterIdle
    /\ TranslatorIdle
    /\ ServicesIdle

\* Faulty variant of Done: the result is kept in one slot that all the
\* requests on the adjuster share.
DoneShared(g, r) ==
    /\ result' = [h \in Goroutines |-> r]
    /\ pc' = [pc EXCEPT ![g] = "done"]

\* The call returns r to the goroutine.
Done(g, r) ==
    /\ result' = [result EXCEPT ![g] = r]
    /\ pc' = [pc EXCEPT ![g] = "done"]

CallArgs ==
    {[op |-> "AdjustPath", commit |-> c, path |-> f, reverse |-> rv] :
        c \in Commits, f \in Paths, rv \in BOOLEAN}
    \cup {[op |-> "AdjustPosition", commit |-> c, path |-> f, value |-> v,
           reverse |-> rv] :
        c \in Commits, f \in Paths, v \in ReqPositions, rv \in BOOLEAN}
    \cup {[op |-> "AdjustRange", commit |-> c, path |-> f, value |-> v,
           reverse |-> rv] :
        c \in Commits, f \in Paths, v \in ReqRanges, rv \in BOOLEAN}

\* A goroutine calls AdjustPath, AdjustPosition or AdjustRange; the call runs
\* up to its first call of a collaborator.
Call(g) ==
    /\ pc[g] = "idle"
    /\ \E a \in CallArgs :
        /\ args' = [args EXCEPT ![g] = a]
        /\ calls' = [calls EXCEPT ![g] = <<>>]
        /\ IF a.op = "AdjustPath"
           THEN /\ Done(g, AdjustPath(a.commit, a.path, a.reverse))
                /\ UNCHANGED locals
           ELSE IF sameCommit(adjuster.commit, a.commit)
           THEN /\ Done(g, translate(a, <<>>))
                /\ UNCHANGED locals
           ELSE /\ locals' = [locals EXCEPT
                                ![g] = swapCommits(adjuster.commit, a.commit, a.reverse)]
                /\ pc' = [pc EXCEPT ![g] = "CachedGitRepo"]
                /\ UNCHANGED result
    /\ UNCHANGED <<adjuster, translatorVars, serviceVars>>

\* backend.CachedGitRepo(ctx, repo) answers.
CachedGitRepo(g) ==
    /\ pc[g] = "CachedGitRepo"
    /\ \E err \in {Nil, ErrRepo} :
        /\ calls' = [calls EXCEPT
                       ![g] = Append(@, CallRecord("CachedGitRepo", <<adjuster.repo>>, err))]
        /\ IF err # Nil
           THEN Done(g, returnError(args[g], err))
           ELSE /\ pc' = [pc EXCEPT ![g] = "ExecReader"]
                /\ UNCHANGED result
    /\ UNCHANGED <<adjuster, args, locals, translatorVars, serviceVars>>

\* git.ExecReader(ctx, *cachedRepo, "diff", ...) answers.
ExecReader(g) ==
    /\ pc[g] = "ExecReader"
    /\ \E err \in {Nil, ErrExec} :
        /\ calls' = [calls EXCEPT
                       ![g] = Append(@, CallRecord("ExecReader",
                                                   diffArgs(locals[g], args[g].path), err))]
        /\ IF err # Nil
           THEN Done(g, returnError(args[g], err))
           ELSE /\ pc' = [pc EXCEPT ![g] = "ReadAll"]
                /\ UNCHANGED result
    /\ UNCHANGED <<adjuster, args, locals, translatorVars, serviceVars>>

\* ioutil.ReadAll(reader) answers: an error, no bytes, or some bytes.  When
\* readHunks returns, the deferred reader.Close() runs.
ReadAll(g) ==
    /\ pc[g] = "ReadAll"
    /\ \E r \in {"error", "empty", "bytes"} :
        LET rec == CallRecord("ReadAll", <<>>, IF r = "error" THEN ErrRead ELSE Nil)
            close == CallRecord("reader.Close", <<>>, Nil)
        IN  IF r = "error"
            THEN /\ calls' = [calls EXCEPT ![g] = @ \o <<rec, close>>]
                 /\ Done(g, returnError(args[g], ErrRead))
            ELSE IF r = "empty"
            THEN /\ calls' = [calls EXCEPT ![g] = @ \o <<rec, close>>]
                 /\ Done(g, translate(args[g], <<>>))
            ELSE /\ calls' = [calls EXCEPT ![g] = Append(@, rec)]
                 /\ pc' = [pc EXCEPT ![g] = "Read"]
                 /\ UNCHANGED result
    /\ UNCHANGED <<adjuster, args, locals, translatorVars, serviceVars>>

\* diff.NewFileDiffReader(...).Read() answers; then the translation runs.
Read(g) ==
    /\ pc[g] = "Read"
    /\ \E r \in {<<ErrParse, <<>>>>} \cup {<<Nil, d>> : d \in ParsedDiffs} :
        LET rec == ReadRecord(r[1], r[2])
            close == CallRecord("reader.Close", <<>>, Nil)
        IN  /\ calls' = [calls EXCEPT ![g] = @ \o <<rec, close>>]
            /\ IF r[1] # Nil
               THEN Done(g, returnError(args[g], r[1]))
               ELSE Done(g, translate(args[g], r[2]))
    /\ UNCHANGED <<adjuster, args, locals, translatorVars, serviceVars>>

\* The goroutine is through with the result and may call again.
Finish(g) ==
    /\ pc[g] = "done"
    /\ pc' = [pc EXCEPT ![g] = "idle"]
    /\ args' = [args EXCEPT ![g] = NoArgs]
    /\ locals' = [locals EXCEPT ![g] = NoLocals]
    /\ calls' = [calls EXCEPT ![g] = <<>>]
    /\ result' = [result EXCEPT ![g] = NoResult]
    /\ UNCHANGED <<adjuster, translatorVars, serviceVars>>

Next ==
    \E g \in Goroutines :
        \/ Call(g)
        \/ CachedGitRepo(g)
        \/ ExecReader(g)
        \/ ReadAll(g)
        \/ Read(g)
        \/ Finish(g)

Spec == Init /\ [][Next]_vars

\* ------------------------------------------ the translation functions alone
InitTranslate ==
    /\ hunks \in HunkLists
    /\ req \in {[op |-> "adjustPosition", arg |-> p] : p \in Positions}
    /\ out = NotRun
    /\ back = NotRun
    /\ adjuster = NewPositionAdjuster(Repo, "c1")
    /\ AdjusterIdle
    /\ ServicesIdle

CallAdjustPosition ==
    /\ req.op = "adjustPosition"
    /\ out = NotRun
    /\ out' = adjustPosition(hunks, req.arg)
    /\ UNCHANGED <<hunks, req, back, adjusterVars, serviceVars>>

CallAdjustRange ==
    /\ req.op = "adjustRange"
    /\ out = NotRun
    /\ out' = adjustRange(hunks, req.arg)
    /\ UNCHANGED <<hunks, req, back, adjusterVars, serviceVars>>

NextTranslate == CallAdjustPosition

SpecTranslate == InitTranslate /\ [][NextTranslate]_vars

InitRange ==
    /\ hunks \in HunkLists
    /\ req \in {[op |-> "adjustRange", arg |-> r] : r \in Ranges}
    /\ out = NotRun
    /\ back = NotRun
    /\ adjuster = NewPositionAdjuster(Repo, "c1")
    /\ AdjusterIdle
    /\ ServicesIdle

NextRange == CallAdjustRange

SpecRange == InitRange /\ [][NextRange]_vars

\* ------------------------------------- the translation of diffs git prints
InitDiff ==
    /\ hunks \in GitDiffs
    /\ req \in {[op |-> "adjustPosition", arg |-> p] : p \in DiffPositions}
               \cup {[op |-> "adjustRange", arg |-> r] : r \in DiffRanges}
               \cup {[op |-> "findHunk", arg |-> l + 1] : l \in DiffLines}
    /\ out = NotRun
    /\ back = NotRun
    /\ adjuster = NewPositionAdjuster(Repo, "c1")
    /\ AdjusterIdle
    /\ ServicesIdle

\* findHunk(hunks, line) is called by itself.
CallFindHunk ==
    /\ req.op = "findHunk"
    /\ out = NotRun
    /\ out' = [state |-> "returned", value |-> findHunk(hunks, req.arg)]
    /\ UNCHANGED <<hunks, req, back, adjusterVars, serviceVars>>

\* A position that was translated is translated again, now with the diff
\* of the opposite direction (reverse = true on the same pair of commits).
CallAdjustBack ==
    /\ req.op = "adjustPosition"
    /\ out.state = "returned" /\ out.ok
    /\ back = NotRun
    /\ back' = adjustPosition(InverseDiff(hunks), out.value)
    /\ UNCHANGED <<hunks, req, out, adjusterVars, serviceVars>>

NextDiff ==
    \/ CallAdjustPosition
    \/ CallAdjustRange
    \/ CallFindHunk
    \/ CallAdjustBack

SpecDiff == InitDiff /\ [][NextDiff]_vars

\* ------------------------------------------------------ IndexResetter.Run
InitResetter ==
    /\ toggler = NewToggleLineWrap(EmptyStorage, <<>>, 0)
    /\ resetter \in {NewIndexResetter(d) : d \in ResetIntervals}
    /\ container = NewRepoContainer(Params(0, <<"a">>))
    /\ adjuster = NewPositionAdjuster(Repo, "c1")
    /\ AdjusterIdle
    /\ TranslatorIdle

\* The loop body begins: Store.ResetStalledIndexes is called.
CallStore ==
    /\ resetter.pc = "for"
    /\ resetter.iterations < MaxIterations
    /\ resetter' = [resetter EXCEPT !.pc = "ResetStalledIndexes",
                                    !.storeCalls = @ + 1]
    /\ UNCHANGED <<translatorVars, adjusterVars, container, toggler>>

\* The store answers; the counters are updated and time.Sleep is called.
StoreReturns ==
    /\ resetter.pc = "ResetStalledIndexes"
    /\ \E resp \in StoreResponses :
        resetter' = [resetter EXCEPT !.last = resp,
                                     !.Metrics = recordMetrics(@, resp),
                                     !.pc = "Sleep",
                                     !.sleeps = @ + 1,
                                     !.sleptFor = resetter.ResetInterval]
    /\ UNCHANGED <<translatorVars, adjusterVars, container, toggler>>

\* time.Sleep returns and the loop goes round.
SleepReturns ==
    /\ resetter.pc = "Sleep"
    /\ resetter' = [resetter EXCEPT !.pc = "for", !.iterations = @ + 1]
    /\ UNCHANGED <<translatorVars, adjusterVars, container, toggler>>

NextResetter ==
    \/ CallStore
    \/ StoreReturns
    \/ SleepReturns

\* The goroutine is scheduled, the store answers and the sleep ends.
SpecResetter ==
    InitResetter /\ [][NextResetter]_vars /\ WF_vars(NextResetter)

\* ---------------------------------------------------------- RepoContainer
Unsubscribed(f) == [f EXCEPT !.subscribed = FALSE]

\* Faulty variant of routeChange: the fetches are merged, not switched, so
\* the answer of an earlier fetch is still listened to.
routeChangeMerges(c, params) ==
    LET parsed == parseURLPath(params.repoRevAndRest)
        fetched ==
            IF c.lastRepoPath # <<parsed.repoPath>>
            THEN [c EXCEPT
                    !.lastRepoPath = <<parsed.repoPath>>,
                    !.state.repoOrError = Undefined,
                    !.fetches = @ \cup {[id |-> c.started + 1,
                                         repoPath |-> parsed.repoPath,
                                         subscribed |-> TRUE]},
                    !.started = @ + 1]
            ELSE c
    IN  [fetched EXCEPT
            !.state.repoPath = parsed.repoPath,
            !.state.rev = parsed.rev,
            !.state.rest = parsed.rest,
            !.query = searchQueryForRepoRev(parsed.repoPath, parsed.rev)]

\* routeMatchChanges.next(params): the fetch pipeline runs first, then the
\* subscriber that updates the header state.
routeChange(c, params) ==
    LET parsed == parseURLPath(params.repoRevAndRest)
        fetched ==
            IF c.lastRepoPath # <<parsed.repoPath>>
            THEN [c EXCEPT
                    !.lastRepoPath = <<parsed.repoPath>>,
                    !.state.repoOrError = Undefined,
                    !.fetches = {Unsubscribed(f) : f \in @}
                                  \cup {[id |-> c.started + 1,
                                         repoPath |-> parsed.repoPath,
                                         subscribed |-> TRUE]},
                    !.started = @ + 1]
            ELSE c
    IN  [fetched EXCEPT
            !.state.repoPath = parsed.repoPath,
            !.state.rev = parsed.rev,
            !.state.rest = parsed.rest,
            !.query = searchQueryForRepoRev(parsed.repoPath, parsed.rev)]

InitContainer ==
    /\ toggler = NewToggleLineWrap(EmptyStorage, <<>>, 0)
    /\ container \in {NewRepoContainer(Params(0, r)) : r \in Routes}
    /\ resetter = NewIndexResetter("1s")
    /\ adjuster = NewPositionAdjuster(Repo, "c1")
    /\ AdjusterIdle
    /\ TranslatorIdle

ComponentDidMount ==
    /\ container.status = "constructed"
    /\ container' = [routeChange(container, container.props.params)
                       EXCEPT !.status = "mounted"]
    /\ UNCHANGED <<translatorVars, adjusterVars, resetter, toggler>>

\* React hands over new props: the params object it had or a new one.
ComponentWillReceiveProps ==
    /\ container.status = "mounted"
    /\ \E params \in {container.props.params}
                     \cup {Params(container.props.params.id + 1, r) : r \in Routes} :
        /\ params.id <= MaxNavigations
        /\ container' =
              IF params # container.props.params
              THEN [routeChange(container, params) EXCEPT !.props.params = params]
              ELSE container
    /\ UNCHANGED <<translatorVars, adjusterVars, resetter, toggler>>

\* A fetchRepository call answers with a repository or an error.  Nobody
\* listens to the answer of a call that switchMap or the unmounting
\* unsubscribed from.
FetchAnswers ==
    /\ \E f \in container.fetches :
        \E answer \in Repositories(f.repoPath) \cup FetchErrors :
            LET gone == [container EXCEPT !.fetches = @ \ {f}]
            IN  container' =
                    IF ~f.subscribed THEN [gone EXCEPT !.dropped = @ + 1]
                    ELSE IF answer \in FetchErrors
                    THEN IF answer.code = "EREPOSEEOTHER"
                         THEN [gone EXCEPT !.redirectedTo = answer.redirectURL]
                         ELSE [gone EXCEPT !.state.repoOrError = answer]
                    ELSE [gone EXCEPT !.state.repoOrError = answer]
    /\ UNCHANGED <<translatorVars, adjusterVars, resetter, toggler>>

\* onDidUpdateRepository(update) is called; the update is merged into
\* repoOrError while the component is subscribed to repositoryUpdates.
OnDidUpdateRepository ==
    /\ container.status # "constructed"
    /\ \E update \in RepositoryUpdates :
        container' =
            IF container.status = "mounted"
            THEN [container EXCEPT
                    !.state.repoOrError = Spread(@, update)]
            ELSE container
    /\ UNCHANGED <<translatorVars, adjusterVars, resetter, toggler>>

ComponentWillUnmount ==
    /\ container.status = "mounted"
    /\ container' = [container EXCEPT
                        !.status = "unmounted",
                        !.fetches = {Unsubscribed(f) : f \in @}]
    /\ UNCHANGED <<translatorVars, adjusterVars, resetter, toggler>>

NextContainer ==
    \/ ComponentDidMount
    \/ ComponentWillReceiveProps
    \/ FetchAnswers
    \/ OnDidUpdateRepository
    \/ ComponentWillUnmount

SpecContainer == InitContainer /\ [][NextContainer]_vars

\* --------------------------------------------------------- ToggleLineWrap
\* Faulty variant of updated: the new value is not persisted.
updatedForgetsStorage(t, value) ==
    [t EXCEPT
        !.events = Append(@, IF value THEN "WrappedCode" ELSE "UnwrappedCode"),
        !.state = [value |-> value],
        !.onDidUpdate = Append(@, value),
        !.forceUpdates = @ + 1]

\* The subscriber of updates: log, persist, set the state, tell the parent,
\* refresh the tooltip.
updated(t, value) ==
    [t EXCEPT
        !.events = Append(@, IF value THEN "WrappedCode" ELSE "UnwrappedCode"),
        !.storage = setValue(@, value),
        !.state = [value |-> value],
        !.onDidUpdate = Append(@, value),
        !.forceUpdates = @ + 1]

\* A DOM event is delivered.
Delivered(t, input) == [t EXCEPT !.inputs = @ + 1, !.lastInput = input]

InitToggle ==
    /\ toggler \in {NewToggleLineWrap(st, <<>>, 0) : st \in Storages}
    /\ resetter = NewIndexResetter("1s")
    /\ container = NewRepoContainer(Params(0, <<"a">>))
    /\ adjuster = NewPositionAdjuster(Repo, "c1")
    /\ AdjusterIdle
    /\ TranslatorIdle

ToggleDidMount ==
    /\ toggler.status = "constructed"
    /\ toggler' = [toggler EXCEPT !.status = "mounted"]
    /\ UNCHANGED <<translatorVars, adjusterVars, resetter, container>>

\* The button is there to be clicked while the component is mounted.
onClick ==
    /\ toggler.status = "mounted"
    /\ toggler.inputs < MaxInputs
    /\ toggler' = updated(Delivered(toggler, ClickInput), ~toggler.state.value)
    /\ UNCHANGED <<translatorVars, adjusterVars, resetter, container>>

\* A key goes down on the window; the component listens while mounted and
\* only to Alt+Z.
Keydown ==
    /\ toggler.inputs < MaxInputs
    /\ \E altKey \in BOOLEAN, key \in Keys :
        LET t == Delivered(toggler, KeydownInput(altKey, key))
        IN  toggler' =
                IF toggler.status = "mounted" /\ altKey /\ key = "z"
                THEN updated(t, ~toggler.state.value)
                ELSE t
    /\ UNCHANGED <<translatorVars, adjusterVars, resetter, container>>

ToggleWillUnmount ==
    /\ toggler.status = "mounted"
    /\ toggler' = [toggler EXCEPT !.status = "unmounted"]
    /\ UNCHANGED <<translatorVars, adjusterVars, resetter, container>>

\* The header is rendered again: a new component is constructed.
ToggleConstructed ==
    /\ toggler.status = "unmounted"
    /\ toggler' = [NewToggleLineWrap(toggler.storage, toggler.events,
                                     toggler.inputs)
                     EXCEPT !.lastInput = toggler.lastInput]
    /\ UNCHANGED <<translatorVars, adjusterVars, resetter, container>>

\* Another tab of the site sets the line wrapping.
StorageSetElsewhere ==
    /\ \E value \in BOOLEAN :
        toggler' = [toggler EXCEPT !.storage = setValue(@, value)]
    /\ UNCHANGED <<translatorVars, adjusterVars, resetter, container>>

NextToggle ==
    \/ ToggleDidMount
    \/ onClick
    \/ Keydown
    \/ ToggleWillUnmount
    \/ ToggleConstructed
    \/ StorageSetElsewhere

SpecToggle == InitToggle /\ [][NextToggle]_vars

\* ----------------------------------------------- the translator's claims
\* What the claims speak of, stated over the call's inputs alone.
Called == out.state # "not run"
QueriedLine(p) == p.Line + 1

\* The located hunk: the last hunk with OrigStartLine <= line (0 when every
\* hunk starts after the line).
Located(hs, line) ==
    LET S == {i \in 1 .. Len(hs) : hs[i].OrigStartLine <= line}
    IN  IF S = {} THEN 0 ELSE SetMax(S)

AtOrAfterEnd(h, line) == line >= h.OrigStartLine + h.OrigLines
InsideSpan(h, line) ==
    h.OrigStartLine <= line /\ line < h.OrigStartLine + h.OrigLines

DeltaLines(h) == Split(h.Body, NL)
IsAddedLine(l) == HasPrefix(l, "+")
IsRemovedLine(l) == HasPrefix(l, "-")
IsContextLine(l) == HasPrefix(l, " ")

\* The number of delta lines among the first k that belong to the original
\* file as the walk counts them (every line that is not an addition).
SourceLinesUpTo(h, k) ==
    Cardinality({j \in 1 .. k : ~IsAddedLine(DeltaLines(h)[j])})

\* The delta line the walk stops at for the queried line: the first one at
\* which the count of original-file lines reaches the line (0 when none).
StopIndex(h, line) ==
    LET want == line - h.OrigStartLine + 1
        S == {k \in 1 .. Len(DeltaLines(h)) : SourceLinesUpTo(h, k) = want}
    IN  IF S = {} THEN 0 ELSE CHOOSE k \in S : \A m \in S : k <= m

\* Delta lines tagged context or added before delta line k.
NewLinesBefore(h, k) ==
    Cardinality({j \in 1 .. k - 1 :
        IsContextLine(DeltaLines(h)[j]) \/ IsAddedLine(DeltaLines(h)[j])})

\* Delta lines tagged context or removed in the whole body.
OrigLinesHeld(h) ==
    Cardinality({j \in 1 .. Len(DeltaLines(h)) :
        IsContextLine(DeltaLines(h)[j]) \/ IsRemovedLine(DeltaLines(h)[j])})

PosCall == req.op = "adjustPosition" /\ Called
PosLine == QueriedLine(req.arg)
PosHunk == hunks[Located(hunks, PosLine)]
PosLocated == Located(hunks, PosLine) # 0
PosStop == StopIndex(PosHunk, PosLine)
PosInside == PosLocated /\ InsideSpan(PosHunk, PosLine)
EndDelta(h) ==
    (h.NewStartLine + h.NewLines) - (h.OrigStartLine + h.OrigLines)

\* C1 (post-hunk shift): a position whose line is at or after the end of the
\* located hunk's original span is returned with ok = true, its line moved by
\* (NewStartLine + NewLines) - (OrigStartLine + OrigLines) of that hunk and
\* its character unchanged.
C1_PostHunkShift ==
    (PosCall /\ PosLocated /\ AtOrAfterEnd(PosHunk, PosLine))
        => out = Return(Position(req.arg.Line + EndDelta(PosHunk),
                                 req.arg.Character), TRUE)

C1_Witness ==
    /\ PosCall /\ Len(hunks) = 2 /\ Located(hunks, PosLine) = 2
    /\ AtOrAfterEnd(PosHunk, PosLine)
    /\ EndDelta(PosHunk) # 0
    /\ EndDelta(PosHunk) # PosHunk.NewLines - PosHunk.OrigLines
    /\ req.arg.Character > 0
    /\ out.state = "returned" /\ out.ok

\* C2 (edited-line failure): when the queried line is inside the located
\* hunk's original span and the walk stops at a delta line tagged added or
\* removed, the call returns ok = false with the zero position.
C2_EditedLineFails ==
    (/\ PosCall /\ PosInside /\ PosStop # 0
     /\ \/ IsAddedLine(DeltaLines(PosHunk)[PosStop])
        \/ IsRemovedLine(DeltaLines(PosHunk)[PosStop]))
        => out = Return(ZeroPosition, FALSE)

C2_Witness ==
    /\ PosCall /\ PosInside /\ PosStop # 0
    /\ IsRemovedLine(DeltaLines(PosHunk)[PosStop])
    /\ req.arg.Line > 0 /\ req.arg.Character > 0
    /\ out.state = "returned" /\ ~out.ok

\* C3 (context-line translation): when the queried line is inside the located
\* hunk's original span and is a context line of the body, the call returns
\* ok = true with the line NewStartLine + (context and added delta lines
\* before it), zero-indexed, and the input character.
C3_ContextLineTranslation ==
    (/\ PosCall /\ PosInside /\ PosStop # 0
     /\ IsContextLine(DeltaLines(PosHunk)[PosStop]))
        => out = Return(Position(PosHunk.NewStartLine
                                   + NewLinesBefore(PosHunk, PosStop) - 1,
                                 req.arg.Character), TRUE)

C3_Witness ==
    /\ PosCall /\ PosInside /\ PosStop = 2
    /\ IsContextLine(DeltaLines(PosHunk)[PosStop])
    /\ IsAddedLine(DeltaLines(PosHunk)[1])
    /\ PosHunk.NewStartLine # PosHunk.OrigStartLine
    /\ req.arg.Character > 0
    /\ out.state = "returned" /\ out.ok

\* C4 (pre-hunk passthrough): a position whose line is strictly smaller than
\* the OrigStartLine of every hunk (the empty list included) is returned
\* unchanged with ok = true.
C4_PreHunkPassthrough ==
    (PosCall /\ \A i \in 1 .. Len(hunks) : PosLine < hunks[i].OrigStartLine)
        => out = Return(req.arg, TRUE)

C4_Witness ==
    /\ PosCall /\ Len(hunks) >= 1
    /\ \A i \in 1 .. Len(hunks) : PosLine < hunks[i].OrigStartLine
    /\ EndDelta(hunks[1]) # 0
    /\ req.arg.Character > 0
    /\ out.state = "returned" /\ out.ok

\* The malformed-hunk case: the queried line is inside the declared span of
\* the located hunk, whose body holds fewer original-file lines than it
\* declares, and the walk reaches no delta line for it.
PosMalformed ==
    /\ PosInside
    /\ OrigLinesHeld(PosHunk) < PosHunk.OrigLines
    /\ PosStop = 0

C7_MalformedReturnsToCaller ==
    (PosCall /\ PosMalformed) => out.state = "returned"

RangeCall == req.op = "adjustRange" /\ Called
Succeeds(r) == r.state = "returned" /\ r.ok
Fails(r) == r.state = "returned" /\ ~r.ok

\* C5 (range conjunction): adjustRange returns ok = true exactly when
\* adjustPosition succeeds on both endpoints; then the result is the pair of
\* the translated endpoints; and when either endpoint fails the result is
\* ok = false with the zero range.
C5_RangeConjunction ==
    RangeCall =>
        LET start == adjustPosition(hunks, req.arg.Start)
            end == adjustPosition(hunks, req.arg.End)
        IN  /\ Succeeds(out) <=> (Succeeds(start) /\ Succeeds(end))
            /\ (Succeeds(start) /\ Succeeds(end))
                   => out = Return(Range(start.value, end.value), TRUE)
            /\ (Fails(start) \/ Fails(end)) => out = Return(ZeroRange, FALSE)

\* -------------------------------------------------- the adjuster's claims
IsDone(g) == pc[g] = "done"
Translating(g) == args[g].op \in {"AdjustPosition", "AdjustRange"}

\* C8 (identity): when the target commit is the adjuster's source commit,
\* AdjustPosition and AdjustRange return (path, value, true, nil) with the
\* path and the position or range as given, whatever reverse is.
C8_Identity ==
    \A g \in Goroutines :
        (IsDone(g) /\ Translating(g) /\ args[g].commit = adjuster.commit)
            => result[g] = Returned(args[g].path, args[g].value, TRUE, Nil)

C8_Witness ==
    \E g, h \in Goroutines :
        /\ IsDone(g) /\ args[g].op = "AdjustPosition"
        /\ args[g].commit = adjuster.commit /\ args[g].reverse
        /\ args[g].value # ZeroPosition
        /\ IsDone(h) /\ args[h].op = "AdjustRange"
        /\ args[h].commit = adjuster.commit /\ ~args[h].reverse
        /\ result[g].state = "returned" /\ result[h].state = "returned"

FailedCalls(g) == {i \in 1 .. Len(calls[g]) : calls[g][i].err # Nil}

\* C9 (infrastructure failure propagation): when a collaborator call of
\* AdjustPosition / AdjustRange failed, the call returns that error with the
\* empty path, the zero position or range and ok = false; every collaborator
\* was called at most once and nothing but the closing of the reader follows
\* the failed call.
C9_FailurePropagation ==
    \A g \in Goroutines :
        (IsDone(g) /\ Translating(g) /\ FailedCalls(g) # {})
            => \E i \in FailedCalls(g) :
                /\ result[g] = Returned("", ZeroValue(args[g].op), FALSE,
                                        calls[g][i].err)
                /\ \A j \in 1 .. Len(calls[g]) :
                    j > i => calls[g][j].fn = "reader.Close"
                /\ \A j, k \in 1 .. Len(calls[g]) :
                    j # k => calls[g][j].fn # calls[g][k].fn

C9_Witness ==
    \E g \in Goroutines :
        /\ IsDone(g) /\ args[g].op = "AdjustPosition"
        /\ args[g].value # ZeroPosition
        /\ \E i \in FailedCalls(g) : calls[g][i].fn = "FileDiffReader.Read"
        /\ result[g].state = "returned" /\ result[g].err = ErrParse

ExecCalls(g) == {i \in 1 .. Len(calls[g]) : calls[g][i].fn = "ExecReader"}

DiffDirection ==
    \A g \in Goroutines : \A i \in ExecCalls(g) :
        /\ args[g].commit # adjuster.commit
        /\ ~args[g].reverse =>
              calls[g][i].args =
                  <<"diff", adjuster.commit, args[g].commit, "--", args[g].path>>
        /\ args[g].reverse =>
              calls[g][i].args =
                  <<"diff", args[g].commit, adjuster.commit, "--", args[g].path>>

\* C10 (direction swap): the diff is requested from the adjuster's source
\* commit to the given commit when reverse is false and from the given commit
\* to the adjuster's source commit when reverse is true, and no step changes
\* the adjuster's stored commit.
C10_DirectionSwap ==
    []DiffDirection /\ [][adjuster'.commit = adjuster.commit]_vars

C10_Witness ==
    \E g, h \in Goroutines :
        /\ ExecCalls(g) # {} /\ args[g].reverse
        /\ ExecCalls(h) # {} /\ ~args[h].reverse
        /\ args[g].commit # adjuster.commit
        /\ args[h].commit # adjuster.commit

\* C12 (same-commit short-circuit): a translation whose target commit is the
\* adjuster's source commit never calls a collaborator (repository lookup,
\* diff command, reading, parsing); it is finished by the call itself and
\* answers as for the empty hunk sequence, whatever reverse is.
C12_SameCommitShortCircuit ==
    \A g \in Goroutines :
        (Translating(g) /\ args[g].commit = adjuster.commit)
            => /\ calls[g] = <<>>
               /\ IsDone(g)
               /\ result[g] = translate(args[g], <<>>)

C12_Witness ==
    \E g, h \in Goroutines :
        /\ IsDone(g) /\ args[g].op = "AdjustRange"
        /\ args[g].commit = adjuster.commit /\ args[g].reverse
        /\ IsDone(h) /\ args[h].op = "AdjustPosition"
        /\ args[h].commit = adjuster.commit /\ ~args[h].reverse
        /\ calls[g] = <<>> /\ calls[h] = <<>>
        /\ result[g].ok /\ result[h].ok

\* C14 (AdjustPath pass-through): AdjustPath returns the path it was given
\* with ok = true and no error, for every commit and either value of
\* reverse, and calls no collaborator.
C14_AdjustPathPassThrough ==
    \A g \in Goroutines :
        args[g].op = "AdjustPath"
            => /\ IsDone(g)
               /\ result[g] = [state |-> "returned", path |-> args[g].path,
                               ok |-> TRUE, err |-> Nil]
               /\ calls[g] = <<>>

C14_Witness ==
    \E g, h \in Goroutines :
        /\ IsDone(g) /\ args[g].op = "AdjustPath"
        /\ args[g].reverse /\ args[g].commit # adjuster.commit
        /\ IsDone(h) /\ args[h].op = "AdjustPath"
        /\ ~args[h].reverse /\ args[h].commit = adjuster.commit
        /\ result[g].path = args[g].path /\ result[h].path = args[h].path

\* ------------------------------------------- claims about diffs git prints
OffHunk(h, line) ==
    line < h.OrigStartLine \/ line >= h.OrigStartLine + h.OrigLines

\* C11 (reverse symmetry): for a diff of a single hunk and a position off
\* the hunk (before its original start or at or after its original end),
\* the translation succeeds, and translating its result with the inverse
\* diff succeeds and gives the position that was asked for.
C11_ReverseSymmetry ==
    (PosCall /\ Len(hunks) = 1 /\ OffHunk(hunks[1], PosLine))
        => /\ Succeeds(out)
           /\ back # NotRun => back = Return(req.arg, TRUE)

FindCall == req.op = "findHunk" /\ Called
StrictlyIncreasing(hs) ==
    \A i \in 1 .. Len(hs) - 1 : hs[i].OrigStartLine < hs[i + 1].OrigStartLine

\* C13 (hunk locator): for hunks in strictly increasing OrigStartLine order
\* and a 1-indexed line, findHunk returns the last hunk whose OrigStartLine
\* is at most the line, and returns none exactly when every hunk starts
\* after the line (or there is no hunk).
C13_HunkLocator ==
    (FindCall /\ StrictlyIncreasing(hunks))
        => /\ out.value = Located(hunks, req.arg)
           /\ out.value = 0
                <=> \A i \in 1 .. Len(hunks) : hunks[i].OrigStartLine > req.arg

C13_Witness ==
    /\ FindCall /\ Len(hunks) = 3 /\ out.value = 2
    /\ hunks[2].OrigStartLine = req.arg
    /\ hunks[3].OrigStartLine > req.arg

\* Delta lines tagged context or added in the whole body.
NewLinesHeld(h) ==
    Cardinality({j \in 1 .. Len(DeltaLines(h)) :
        IsContextLine(DeltaLines(h)[j]) \/ IsAddedLine(DeltaLines(h)[j])})

\* Every hunk's body holds as many lines of either file as its header says.
BodiesMatch(hs) ==
    \A i \in 1 .. Len(hs) :
        /\ OrigLinesHeld(hs[i]) = hs[i].OrigLines
        /\ NewLinesHeld(hs[i]) = hs[i].NewLines

\* C16 (exact failure characterisation): for hunks whose bodies match their
\* declared counts, adjustPosition returns, and it returns ok = false if and
\* only if the queried line is inside the located hunk's original span and
\* the delta line the walk stops at is a removed line; the walk never stops
\* at an added line.
C16_ExactFailure ==
    (PosCall /\ BodiesMatch(hunks))
        => /\ out.state = "returned"
           /\ ~out.ok <=> (/\ PosInside /\ PosStop # 0
                           /\ IsRemovedLine(DeltaLines(PosHunk)[PosStop]))
           /\ PosInside => (/\ PosStop # 0
                            /\ ~IsAddedLine(DeltaLines(PosHunk)[PosStop]))

C16_Witness ==
    /\ PosCall /\ BodiesMatch(hunks) /\ PosInside
    /\ PosHunk.OrigLines = 1 /\ PosHunk.NewLines = 1 /\ PosStop = 2
    /\ IsAddedLine(DeltaLines(PosHunk)[1])
    /\ IsRemovedLine(DeltaLines(PosHunk)[2])
    /\ out.state = "returned" /\ ~out.ok

\* The lines the first n hunks add to the file, all told.
RECURSIVE DeltaSum(_, _)
DeltaSum(hs, n) ==
    IF n = 0 THEN 0
    ELSE DeltaSum(hs, n - 1) + (hs[n].NewLines - hs[n].OrigLines)

\* A well-formed diff: hunks in increasing order that do not overlap in the
\* original file, each with at least one original line, each starting in
\* the new file where the hunks before it moved its original start to.
WellFormed(hs) ==
    /\ \A i \in 1 .. Len(hs) - 1 :
        hs[i].OrigStartLine + hs[i].OrigLines <= hs[i + 1].OrigStartLine
    /\ \A i \in 1 .. Len(hs) :
        /\ hs[i].OrigLines >= 1
        /\ hs[i].NewStartLine - hs[i].OrigStartLine = DeltaSum(hs, i - 1)

OutsideEverySpan(hs, line) ==
    \A i \in 1 .. Len(hs) : ~InsideSpan(hs[i], line)

\* The hunks whose original span ends before the line.
EndedBefore(hs, line) ==
    Cardinality({i \in 1 .. Len(hs) :
        hs[i].OrigStartLine + hs[i].OrigLines <= line})

\* C17 (cumulative shift): for a well-formed diff, a position outside every
\* hunk's original span is returned with ok = true, its line moved by the
\* sum of (NewLines - OrigLines) over the hunks whose original span ends
\* before that line, and its character unchanged.
C17_CumulativeShift ==
    (PosCall /\ WellFormed(hunks) /\ OutsideEverySpan(hunks, PosLine))
        => out = Return(Position(req.arg.Line
                                   + DeltaSum(hunks, EndedBefore(hunks, PosLine)),
                                 req.arg.Character), TRUE)

C17_Witness ==
    /\ PosCall /\ WellFormed(hunks) /\ OutsideEverySpan(hunks, PosLine)
    /\ Len(hunks) = 2 /\ EndedBefore(hunks, PosLine) = 2
    /\ hunks[1].NewLines # hunks[1].OrigLines
    /\ hunks[2].NewLines # hunks[2].OrigLines
    /\ DeltaSum(hunks, 2) # 0
    /\ out.state = "returned" /\ out.ok
    /\ out.value.Line = req.arg.Line + DeltaSum(hunks, 2)

\* C18 (order preservation): for a well-formed diff whose bodies match
\* their headers, translation is strictly increasing on lines: when both
\* ends of a range translate and the start's line is before the end's line,
\* so are the translated lines; hence a range given in order (start <= end)
\* is returned in order.
C18_OrderPreservation ==
    (RangeCall /\ Succeeds(out) /\ WellFormed(hunks) /\ BodiesMatch(hunks))
        => /\ req.arg.Start.Line < req.arg.End.Line
                => out.value.Start.Line < out.value.End.Line
           /\ InOrder(out.value.Start, out.value.End)

C18_Witness ==
    /\ RangeCall /\ WellFormed(hunks) /\ BodiesMatch(hunks) /\ Succeeds(out)
    /\ Len(hunks) = 2
    /\ DeltaSum(hunks, 1) < 0
    /\ InsideSpan(hunks[1], QueriedLine(req.arg.Start))
    /\ InsideSpan(hunks[2], QueriedLine(req.arg.End))
    /\ out.value.End.Line - out.value.Start.Line
         < req.arg.End.Line - req.arg.Start.Line

\* ------------------------------------------- claims about concurrent calls
\* What a request returns when it runs alone and its collaborators answer
\* as the call log says: the first error, else the translation against the
\* parsed hunks, or against no hunks when nothing was parsed.
ParsedBy(log) == {i \in 1 .. Len(log) : log[i].fn = "FileDiffReader.Read"}
SoloResult(a, log) ==
    IF a.op = "AdjustPath"
    THEN [state |-> "returned", path |-> a.path, ok |-> TRUE, err |-> Nil]
    ELSE IF \E i \in 1 .. Len(log) : log[i].err # Nil
    THEN LET i == CHOOSE i \in 1 .. Len(log) : log[i].err # Nil
         IN  Returned("", ZeroValue(a.op), FALSE, log[i].err)
    ELSE IF ParsedBy(log) # {}
    THEN translate(a, log[CHOOSE i \in ParsedBy(log) : TRUE].hunks)
    ELSE translate(a, <<>>)

\* A step leaves every goroutine but one as it was.
OneGoroutineSteps ==
    \E g \in Goroutines : \A h \in Goroutines \ {g} :
        /\ pc'[h] = pc[h] /\ args'[h] = args[h] /\ locals'[h] = locals[h]
        /\ calls'[h] = calls[h] /\ result'[h] = result[h]

\* C15 (independence of concurrent requests): under every interleaving of
\* the requests on one adjuster, no step changes the adjuster's repository
\* or commit, no step of one request changes anything of another request,
\* and a finished request holds the result it returns when run alone with
\* the same collaborator answers.
C15_Independence ==
    /\ [][adjuster' = adjuster /\ OneGoroutineSteps]_vars
    /\ [](\A g \in Goroutines :
            IsDone(g) => result[g] = SoloResult(args[g], calls[g]))

C15_Witness ==
    \E g, h \in Goroutines :
        /\ g # h
        /\ pc[g] = "Read" /\ args[g].reverse
        /\ args[g].commit # adjuster.commit
        /\ IsDone(h) /\ ~args[h].reverse /\ args[h].op = "AdjustRange"
        /\ args[h].commit = args[g].commit /\ args[h].path = args[g].path
        /\ ParsedBy(calls[h]) # {} /\ result[h].state = "returned"
        /\ result[h].err = Nil /\ ~result[h].ok

\* -------------------------------------------- claims about IndexResetter
ErrorsOf(resp) == IF resp.err # Nil THEN 1 ELSE 0

\* One answer of the store is counted: an error once, the ids by their
\* number; then Run sleeps for ResetInterval.
AnswerCounted ==
    (resetter.pc = "ResetStalledIndexes" /\ resetter'.pc # resetter.pc)
        => /\ resetter'.pc = "Sleep"
           /\ resetter'.sleptFor = resetter.ResetInterval
           /\ resetter'.Metrics.Errors
                = resetter.Metrics.Errors + ErrorsOf(resetter'.last)
           /\ resetter'.Metrics.IndexResets
                = resetter.Metrics.IndexResets + Len(resetter'.last.resetIDs)
           /\ resetter'.Metrics.IndexResetFailures
                = resetter.Metrics.IndexResetFailures
                    + Len(resetter'.last.erroredIDs)

\* No step takes a counter down, and only an answer of the store moves one.
CountersGrow ==
    /\ resetter'.Metrics.Errors >= resetter.Metrics.Errors
    /\ resetter'.Metrics.IndexResets >= resetter.Metrics.IndexResets
    /\ resetter'.Metrics.IndexResetFailures
         >= resetter.Metrics.IndexResetFailures
    /\ resetter'.Metrics # resetter.Metrics
         => resetter.pc = "ResetStalledIndexes"

\* Every iteration calls the store once and sleeps once, in this order.
OncePerIteration ==
    /\ resetter.pc \in {"for", "ResetStalledIndexes", "Sleep"}
    /\ resetter.storeCalls
         = resetter.iterations + (IF resetter.pc = "for" THEN 0 ELSE 1)
    /\ resetter.sleeps
         = resetter.iterations + (IF resetter.pc = "Sleep" THEN 1 ELSE 0)

\* C19 (IndexResetter.Run): Run never returns and keeps polling.  Every
\* iteration calls ResetStalledIndexes once and then sleeps ResetInterval;
\* an error adds exactly one to Errors and the next iteration follows all
\* the same; IndexResets and IndexResetFailures grow by the number of ids
\* the store handed back, and no counter ever goes down.
C19_RunKeepsPolling ==
    /\ []OncePerIteration
    /\ [][AnswerCounted /\ CountersGrow]_vars
    /\ \A n \in 0 .. MaxIterations - 1 :
        (resetter.iterations = n) ~> (resetter.iterations = n + 1)
    /\ \A n \in 1 .. MaxIterations - 1 :
        (/\ resetter.iterations = n /\ resetter.last.state = "returned"
         /\ resetter.last.err # Nil)
            ~> (resetter.storeCalls = n + 1)

C19_Witness ==
    /\ resetter.iterations = 2 /\ resetter.pc = "Sleep"
    /\ resetter.last.err # Nil
    /\ resetter.Metrics.Errors = 2
    /\ resetter.Metrics.IndexResets = 3
    /\ resetter.Metrics.IndexResetFailures = 1
    /\ resetter.storeCalls = 3

\* -------------------------------------------- claims about RepoContainer
\* A fetch is in flight: a fetchRepository call that has not answered and
\* that the component still listens to.
FetchInFlight == \E f \in container.fetches : f.subscribed

\* C20 (loading state): repoOrError is undefined for as long as a
\* repository fetch is in flight, whatever else happens meanwhile (a
\* repository update through onDidUpdateRepository in particular).
C20_UndefinedWhileLoading ==
    FetchInFlight => container.state.repoOrError = Undefined

\* The fetch whose answer arrives in this step (a fetch leaves the set of
\* unanswered fetches only by answering).
Answering(f) == f \in container.fetches /\ f \notin container'.fetches

\* The answer of a fetch that is not the one started last is not stored.
StaleAnswerIgnored ==
    \A f \in container.fetches :
        (Answering(f) /\ f.id # container.started)
            => /\ container'.state = container.state
               /\ container'.redirectedTo = container.redirectedTo

\* Only the fetch for the repoPath of the current route is listened to.
OnlyCurrentFetchHeard ==
    \A f \in container.fetches :
        f.subscribed => /\ f.id = container.started
                        /\ f.repoPath = container.state.repoPath

\* A stored repository is the one of the current route.
StoredIsCurrent ==
    "uri" \in DOMAIN container.state.repoOrError
        => container.state.repoOrError.uri = container.state.repoPath

\* New params whose repoPath is the one already shown start no fetch and
\* leave repoOrError alone.
SamePathKeepsFetch ==
    (/\ container.status = "mounted"
     /\ container'.props.params # container.props.params
     /\ parseURLPath(container'.props.params.repoRevAndRest).repoPath
          = container.state.repoPath)
        => /\ container'.started = container.started
           /\ container'.fetches = container.fetches
           /\ container'.state.repoOrError = container.state.repoOrError

\* C21 (no stale fetch): once the route has changed to another repoPath,
\* the repository or error that a fetch for an earlier repoPath delivers is
\* never stored in repoOrError, in whatever order the answers arrive; a
\* route change that keeps the repoPath starts no fetch and does not reset
\* repoOrError.
C21_NoStaleFetch ==
    /\ [](OnlyCurrentFetchHeard /\ StoredIsCurrent)
    /\ [][StaleAnswerIgnored /\ SamePathKeepsFetch]_vars

C21_Witness ==
    /\ container.status = "mounted"
    /\ container.started = 3 /\ container.dropped = 1
    /\ \E f \in container.fetches : f.id = 1 /\ ~f.subscribed
    /\ \A f \in container.fetches : f.id # 2
    /\ container.props.params.id = 3
    /\ "uri" \in DOMAIN container.state.repoOrError
    /\ container.state.repoOrError.uri = container.state.repoPath

\* ------------------------------------------- claims about ToggleLineWrap
\* This step delivers a toggle event: a click, or Alt+Z going down, while
\* the component is mounted.
ToggleEvent ==
    /\ toggler'.inputs = toggler.inputs + 1
    /\ toggler.status = "mounted"
    /\ \/ toggler'.lastInput = ClickInput
       \/ toggler'.lastInput = KeydownInput(TRUE, "z")

\* The toggle calls onDidUpdate once, with the negation of the value the
\* component had, and leaves the state and the persisted value equal to it.
Flipped ==
    /\ toggler'.onDidUpdate = Append(toggler.onDidUpdate, ~toggler.state.value)
    /\ toggler'.state.value = ~toggler.state.value
    /\ getValue(toggler'.storage) = ~toggler.state.value

\* No other step calls onDidUpdate or changes the component's value.
Untouched ==
    \/ /\ toggler'.onDidUpdate = toggler.onDidUpdate
       /\ toggler'.state = toggler.state
    \/ /\ toggler.status = "unmounted" /\ toggler'.status = "constructed"
       /\ toggler'.onDidUpdate = <<>>

\* A component constructed with nothing persisted is off.
InitiallyOff ==
    (toggler.status = "constructed" /\ STORAGE_KEY \notin DOMAIN toggler.storage)
        => ~toggler.state.value

\* C22 (ToggleLineWrap flips on every toggle): every toggle event (a click,
\* or Alt+Z while mounted) calls onDidUpdate exactly once with the negation
\* of the value before it; after it the component state and getValue() both
\* equal that value; and with nothing persisted the initial value is off.
C22_FlipsOnEveryToggle ==
    /\ []InitiallyOff
    /\ [][IF ToggleEvent THEN Flipped ELSE Untouched]_vars

C22_Witness ==
    /\ toggler.status = "mounted"
    /\ toggler.onDidUpdate = <<TRUE, FALSE, TRUE>>
    /\ toggler.lastInput = KeydownInput(TRUE, "z")
    /\ toggler.state.value /\ getValue(toggler.storage)
    /\ toggler.inputs = 4
    /\ toggler.events = <<"WrappedCode", "UnwrappedCode", "WrappedCode">>

=============================================================================
